---- MODULE Spec2Model ----
(***************************************************************************)
(* Model of books/modules/notion.py: the module's load-time configuration  *)
(* from the process environment, post_book_from_goodreads (create a page   *)
(* in the Notion database) and get_currently_reading (query the database   *)
(* for the titles of the books whose Status is "Reading").                 *)
(*                                                                         *)
(* Python values are tagged records ([py |-> "None"], [py |-> "int", ...]) *)
(* and JSON values are tagged records of their own ([json |-> "null"],     *)
(* ...), so that json.dumps is a conversion and not the identity.          *)
(***************************************************************************)
EXTENDS Integers, Sequences, FiniteSets, TLC

VARIABLES
    environ,            \* os.environ: a function from variable names to strings
    dotenv,             \* the contents of the local .env file
    module,             \* "unloaded", "loaded", or "KeyError" (the import failed)
    NOTION_API_KEY,     \* module global, line 11
    NOTION_DATABASE_ID, \* module global, line 12
    call,               \* the current (or last finished) invocation and its arguments
    pc,                 \* "idle", "waiting" (blocked in requests.request), "done"
    wire,               \* the HTTP requests sent by the current invocation, in order
    response,           \* what requests.request gave the current invocation
    result,             \* what the current invocation gave its caller
    lastPost            \* history: the post_book_from_goodreads call finished before this one

vars == <<environ, dotenv, module, NOTION_API_KEY, NOTION_DATABASE_ID,
          call, pc, wire, response, result, lastPost>>

-----------------------------------------------------------------------------
(* Bounds *)

\* The longest `results` list a query response carries.
MaxResults == 2

-----------------------------------------------------------------------------
(* Python and JSON values *)

PyNone == [py |-> "None"]
PyInt(n) == [py |-> "int", i |-> n]
PyStr(s) == [py |-> "str", s |-> s]

JsonNull == [json |-> "null"]
JsonNumber(n) == [json |-> "number", n |-> n]
JsonString(s) == [json |-> "string", s |-> s]

\* json.dumps on a leaf value: None -> null, int -> number, str -> string.
json_dumps(v) ==
    CASE v.py = "None" -> JsonNull
      [] v.py = "int"  -> JsonNumber(v.i)
      [] v.py = "str"  -> JsonString(v.s)

-----------------------------------------------------------------------------
(* The environment and the module's load-time configuration *)

Unbound == "<unbound>"

EnvNames == {"NOTION_API_KEY", "NOTION_DATABASE_ID"}

\* What the process environment may hold for each name when it is set there.
ProcessValue == [n \in EnvNames |->
                    IF n = "NOTION_API_KEY" THEN "secret_env" ELSE "db_env"]

\* What the .env file may hold for each name when it is set there.
FileValue == [n \in EnvNames |->
                 IF n = "NOTION_API_KEY" THEN "secret_file" ELSE "db_file"]

Environs == {[n \in S |-> ProcessValue[n]] : S \in SUBSET EnvNames}
\* The .env file is absent (or empty), or it sets both names.
DotenvFiles == {[n \in S |-> FileValue[n]] : S \in {{}, EnvNames}}

\* load_dotenv(): every name of the file that the process environment does not
\* already set is added to os.environ (override defaults to False).
load_dotenv(env, file) ==
    [n \in DOMAIN env \cup DOMAIN file |->
        IF n \in DOMAIN env THEN env[n] ELSE file[n]]

\* os.environ[name] with a default: never raises.
os_environ_get(env, name) ==
    [raised |-> FALSE, value |-> IF name \in DOMAIN env THEN env[name] ELSE ""]

\* os.environ[name]: the value, or KeyError when the name is not set.
os_environ_getitem(env, name) ==
    IF name \in DOMAIN env
        THEN [raised |-> FALSE, value |-> env[name]]
        ELSE [raised |-> TRUE, value |-> Unbound]

NoCall == [fn |-> "none"]
NoResponse == [kind |-> "none"]
NoResult == [kind |-> "none"]

Init ==
    /\ environ \in Environs
    /\ dotenv \in DotenvFiles
    /\ module = "unloaded"
    /\ NOTION_API_KEY = Unbound
    /\ NOTION_DATABASE_ID = Unbound
    /\ call = NoCall
    /\ pc = "idle"
    /\ wire = <<>>
    /\ response = NoResponse
    /\ result = NoResult
    /\ lastPost = <<>>

\* Lines 10-12: load_dotenv(), then the two key lookups in order.  A KeyError
\* at either lookup aborts the import, so lines 16 and 64 never define the
\* two functions.
LoadModule ==
    /\ module = "unloaded"
    /\ environ' = load_dotenv(environ, dotenv)
    /\ LET key == os_environ_getitem(environ', "NOTION_API_KEY")
           db  == os_environ_getitem(environ', "NOTION_DATABASE_ID")
       IN  IF key.raised
               THEN /\ module' = "KeyError"
                    /\ UNCHANGED <<NOTION_API_KEY, NOTION_DATABASE_ID>>
               ELSE /\ NOTION_API_KEY' = key.value
                    /\ IF db.raised
                           THEN /\ module' = "KeyError"
                                /\ UNCHANGED NOTION_DATABASE_ID
                           ELSE /\ module' = "loaded"
                                /\ NOTION_DATABASE_ID' = db.value
    /\ UNCHANGED <<dotenv, call, pc, wire, response, result, lastPost>>

-----------------------------------------------------------------------------
(* GoodReadBook, the argument of post_book_from_goodreads *)

\* The six attributes the function reads (lines 33, 41, 45, 49, 53, 55).  The
\* text attributes are a string (possibly empty) or None; isbn and num_pages
\* are an integer or None.
GoodReadBook ==
    [ name      : {PyStr(""), PyStr("Dune")},
      authors   : {PyStr("Frank Herbert")},
      isbn      : {PyNone, PyInt(441013597)},
      num_pages : {PyNone, PyInt(412)},
      image     : {PyStr("https://images.example/dune.jpg")},
      url       : {PyStr(""), PyStr("https://www.goodreads.com/book/show/44767458")} ]

-----------------------------------------------------------------------------
(* post_book_from_goodreads: the request, lines 17-60 *)

\* Lines 18-22 and 66-70: the headers both functions send.
Headers(key) ==
    ("Content-Type" :> "application/json") @@
    ("Notion-Version" :> "2022-02-22") @@
    ("Authorization" :> ("Bearer " \o key))

\* Lines 27-36, 39-42, 51-54: the properties built around a text attribute.
CoverProperty(image) ==
    [type  |-> "files",
     files |-> << [name     |-> "Cover",
                   type     |-> "external",
                   external |-> [url |-> json_dumps(image)]] >>]
TitleProperty(name) ==
    [type  |-> "title",
     title |-> << [type |-> "text", text |-> [content |-> json_dumps(name)]] >>]
RichTextProperty(authors) ==
    [type      |-> "rich_text",
     rich_text |-> << [type |-> "text", text |-> [content |-> json_dumps(authors)]] >>]
\* Lines 43-50: a number property.
NumberProperty(n) == [type |-> "number", number |-> json_dumps(n)]
\* Lines 37-38 and 55.
SelectProperty(v) == [type |-> "select", select |-> json_dumps(v)]
DateProperty(v) == [type |-> "date", date |-> json_dumps(v)]
UrlProperty(url) == [type |-> "url", url |-> json_dumps(url)]

\* A variant that leaves out the properties whose attribute is None or empty.
Properties_omitting_empty(book) ==
    LET all == ("Cover" :> CoverProperty(book.image)) @@
               ("Status" :> SelectProperty(PyNone)) @@
               ("End" :> DateProperty(PyNone)) @@
               ("Name" :> TitleProperty(book.name)) @@
               ("Num Pages" :> NumberProperty(book.num_pages)) @@
               ("ISBN" :> NumberProperty(book.isbn)) @@
               ("Author" :> RichTextProperty(book.authors)) @@
               ("URL" :> UrlProperty(book.url))
        empty == {k \in {"Num Pages"} : book.num_pages.py = "None"}
                 \cup {k \in {"ISBN"} : book.isbn.py = "None"}
                 \cup {k \in {"URL"} : book.url = PyStr("")}
    IN  [k \in DOMAIN all \ empty |-> all[k]]

\* A variant that sends 0 for a number the record does not have.
Properties_defaulting_numbers(book) ==
    LET or0(n) == IF n.py = "None" THEN PyInt(0) ELSE n
    IN  ("Cover" :> CoverProperty(book.image)) @@
        ("Status" :> SelectProperty(PyNone)) @@
        ("End" :> DateProperty(PyNone)) @@
        ("Name" :> TitleProperty(book.name)) @@
        ("Num Pages" :> NumberProperty(or0(book.num_pages))) @@
        ("ISBN" :> NumberProperty(or0(book.isbn))) @@
        ("Author" :> RichTextProperty(book.authors)) @@
        ("URL" :> UrlProperty(book.url))

\* Lines 26-56: the eight properties of the page.
Properties(book) ==
    ("Cover" :> CoverProperty(book.image)) @@
    ("Status" :> SelectProperty(PyNone)) @@
    ("End" :> DateProperty(PyNone)) @@
    ("Name" :> TitleProperty(book.name)) @@
    ("Num Pages" :> NumberProperty(book.num_pages)) @@
    ("ISBN" :> NumberProperty(book.isbn)) @@
    ("Author" :> RichTextProperty(book.authors)) @@
    ("URL" :> UrlProperty(book.url))

\* A variant whose verbose calls mark the request.
post_request_marking_verbose(key, db, book, verbose) ==
    [ method  |-> "POST",
      url     |-> "https://api.notion.com/v1/pages/",
      headers |-> Headers(key) @@ ("X-Verbose" :> IF verbose THEN "1" ELSE "0"),
      data    |-> [ parent     |-> [database_id |-> JsonString(db)],
                    properties |-> Properties(book) ] ]

\* Lines 17-60: the request the function hands to requests.request.  verbose
\* is a parameter of the function and is read nowhere in its body.
post_request(key, db, book, verbose) ==
    [ method  |-> "POST",
      url     |-> "https://api.notion.com/v1/pages/",
      headers |-> Headers(key),
      data    |-> [ parent     |-> [database_id |-> JsonString(db)],
                    properties |-> Properties(book) ] ]

\* The call that has just finished, as the history keeps it.
Finished == [call |-> call, wire |-> wire, response |-> response, result |-> result]

Archive ==
    IF call.fn = "post_book_from_goodreads" /\ pc = "done"
        THEN <<Finished>>
        ELSE lastPost

\* Lines 16-60, up to the point where requests.request blocks on the network.
post_book_from_goodreads_send ==
    /\ module = "loaded"
    /\ pc \in {"idle", "done"}
    /\ \E book \in GoodReadBook, verbose \in BOOLEAN :
          /\ call' = [fn |-> "post_book_from_goodreads", book |-> book, verbose |-> verbose]
          /\ wire' = << post_request(NOTION_API_KEY, NOTION_DATABASE_ID, book, verbose) >>
    /\ pc' = "waiting"
    /\ response' = NoResponse
    /\ result' = NoResult
    /\ lastPost' = Archive
    /\ UNCHANGED <<environ, dotenv, module, NOTION_API_KEY, NOTION_DATABASE_ID>>

-----------------------------------------------------------------------------
(* What requests.request gives back *)

Response(status, body) == [kind |-> "response", status_code |-> status, body |-> body]

\* requests.request raised (DNS, TLS, timeout, connection reset).
TransportError == [kind |-> "exception", exc |-> "ConnectionError"]

\* Bodies: text that is not JSON, or a JSON document.
TextBody == [form |-> "text"]
JsonBody(v) == [form |-> "json", value |-> v]
JsonObject(members) == [json |-> "object", members |-> members]

\* Notion's error object, the body of its non-2xx responses.
ErrorObject == JsonObject([object |-> "error", code |-> "unauthorized"])
\* Notion's page object, the body of a successful page creation.
PageObject == JsonObject([object |-> "page", id |-> "page-1"])
\* Notion's list object, the body of a successful database query.
ListObject(results) == JsonObject([object |-> "list", results |-> results])

\* One entry of `results`: a page whose Name property holds the title runs.
Page(title) == [properties |-> [Name |-> [title |-> title]]]
Run(text) == [plain_text |-> text]

\* The title lists a page may carry: none, one run, or two runs.
Titles ==
    { <<>>, <<Run("Dune")>>, <<Run("Emma")>>, <<Run("Emma"), Run("Dune")>> }

RECURSIVE SeqsUpTo(_, _)
SeqsUpTo(S, n) ==
    IF n = 0 THEN {<<>>}
    ELSE LET shorter == SeqsUpTo(S, n - 1)
         IN  shorter \cup {Append(q, x) : q \in shorter, x \in S}

ResultLists == SeqsUpTo({Page(t) : t \in Titles}, MaxResults)

StatusCodes == {200, 400}

\* What the page-creation call may come back with.
PostOutcomes ==
    {Response(200, JsonBody(PageObject)), Response(400, JsonBody(ErrorObject)),
     TransportError}

\* What the database query may come back with: any status with any body.
QueryBodies ==
    {TextBody, JsonBody(JsonNull), JsonBody(ErrorObject)}
        \cup {JsonBody(ListObject(r)) : r \in ResultLists}

QueryOutcomes ==
    {Response(s, b) : s \in StatusCodes, b \in QueryBodies} \cup {TransportError}

Return(v) == [kind |-> "return", value |-> v]
Raise(e) == [kind |-> "raise", exc |-> e]

-----------------------------------------------------------------------------
(* post_book_from_goodreads: the return, line 60 *)

\* A variant that inspects the status (raise_for_status) before returning.
post_result_checking_status(outcome) ==
    IF outcome.kind = "exception" THEN Raise(outcome.exc)
    ELSE IF outcome.status_code \in 200..299 THEN Return(outcome)
    ELSE Raise("HTTPError")

\* Line 60: whatever requests.request returns is returned; what it raises
\* propagates.
post_result(outcome) ==
    IF outcome.kind = "exception" THEN Raise(outcome.exc) ELSE Return(outcome)

\* A variant that forgets the API key when Notion refuses the request.
post_return_dropping_key ==
    /\ pc = "waiting"
    /\ call.fn = "post_book_from_goodreads"
    /\ \E outcome \in PostOutcomes :
          /\ response' = outcome
          /\ result' = post_result(outcome)
          /\ NOTION_API_KEY' =
                IF outcome.kind = "response" /\ outcome.status_code = 400
                    THEN "" ELSE NOTION_API_KEY
    /\ pc' = "done"
    /\ UNCHANGED <<environ, dotenv, module, NOTION_DATABASE_ID, call, wire, lastPost>>

\* Line 60, from the moment requests.request comes back.
post_book_from_goodreads_return ==
    /\ pc = "waiting"
    /\ call.fn = "post_book_from_goodreads"
    /\ \E outcome \in PostOutcomes :
          /\ response' = outcome
          /\ result' = post_result(outcome)
    /\ pc' = "done"
    /\ UNCHANGED <<environ, dotenv, module, NOTION_API_KEY, NOTION_DATABASE_ID,
                   call, wire, lastPost>>

-----------------------------------------------------------------------------
(* get_currently_reading, lines 64-82 *)

\* Lines 65-73: the request of the query.
get_request(key, db) ==
    [ method  |-> "POST",
      url     |-> "https://api.notion.com/v1/databases/" \o db \o "/query",
      headers |-> Headers(key),
      data    |-> [filter |-> [property |-> "Status",
                               select   |-> [equals |-> JsonString("Reading")]]] ]

\* Lines 64-74, up to the point where requests.request blocks on the network.
get_currently_reading_send ==
    /\ module = "loaded"
    /\ pc \in {"idle", "done"}
    /\ call' = [fn |-> "get_currently_reading"]
    /\ wire' = << get_request(NOTION_API_KEY, NOTION_DATABASE_ID) >>
    /\ pc' = "waiting"
    /\ response' = NoResponse
    /\ result' = NoResult
    /\ lastPost' = Archive
    /\ UNCHANGED <<environ, dotenv, module, NOTION_API_KEY, NOTION_DATABASE_ID>>

\* Line 74, .json(): the parsed body, or JSONDecodeError when it is not JSON.
response_json(body) ==
    IF body.form # "json" THEN Raise("JSONDecodeError")
    ELSE IF body.value.json = "null" THEN Return(PyNone)
    ELSE Return([py |-> "dict", items |-> body.value.members])

\* title[-1]: the last run of the title.
subscript_last(title) ==
    IF Len(title) = 0 THEN Raise("IndexError")
    ELSE Return(title[Len(title)].plain_text)

\* Line 79, book["properties"]["Name"]["title"][0]["plain_text"]: the text of
\* the first run, or IndexError when the title has no run.
subscript_0(title) ==
    IF Len(title) = 0 THEN Raise("IndexError")
    ELSE Return(title[1].plain_text)

\* A comprehension that leaves out the entries whose title has no run.
RECURSIVE comprehension_skipping(_)
comprehension_skipping(results) ==
    IF results = <<>> THEN Return(<<>>)
    ELSE LET first == subscript_0(Head(results).properties.Name.title)
             rest  == comprehension_skipping(Tail(results))
         IN  IF first.kind = "raise" THEN rest
             ELSE Return(<<first.value>> \o rest.value)

\* Lines 78-81: the list comprehension, entry by entry in the order of the
\* response; the first entry that raises ends it, and no list is built.
RECURSIVE comprehension(_)
comprehension(results) ==
    IF results = <<>> THEN Return(<<>>)
    ELSE LET first == subscript_0(Head(results).properties.Name.title)
         IN  IF first.kind = "raise" THEN first
             ELSE LET rest == comprehension(Tail(results))
                  IN  IF rest.kind = "raise" THEN rest
                      ELSE Return(<<first.value>> \o rest.value)

\* A variant that calls raise_for_status() before it parses.
get_result_checking_status(outcome) ==
    IF outcome.kind = "exception" THEN Raise(outcome.exc)
    ELSE IF outcome.status_code \notin 200..299 THEN Raise("HTTPError")
    ELSE LET parsed == response_json(outcome.body)
         IN  IF parsed.kind = "raise" THEN parsed
             ELSE IF parsed.value.py # "dict" THEN Raise("TypeError")
             ELSE IF "results" \notin DOMAIN parsed.value.items THEN Raise("KeyError")
             ELSE comprehension(parsed.value.items.results)

\* Lines 74-82 for what requests.request came back with: parse, index
\* "results", project.  The status code is read nowhere.
get_result(outcome) ==
    IF outcome.kind = "exception" THEN Raise(outcome.exc)
    ELSE LET parsed == response_json(outcome.body)
         IN  IF parsed.kind = "raise" THEN parsed
             ELSE IF parsed.value.py # "dict" THEN Raise("TypeError")
             ELSE IF "results" \notin DOMAIN parsed.value.items THEN Raise("KeyError")
             ELSE comprehension(parsed.value.items.results)

\* A variant that sends the query once more when the first answer cannot be used.
get_return_retrying ==
    /\ pc = "waiting"
    /\ call.fn = "get_currently_reading"
    /\ \E outcome \in QueryOutcomes :
          /\ response' = outcome
          /\ result' = get_result(outcome)
          /\ wire' = IF result'.kind = "raise" THEN wire \o wire ELSE wire
    /\ pc' = "done"
    /\ UNCHANGED <<environ, dotenv, module, NOTION_API_KEY, NOTION_DATABASE_ID,
                   call, lastPost>>

\* Lines 74-82, from the moment requests.request comes back.
get_currently_reading_return ==
    /\ pc = "waiting"
    /\ call.fn = "get_currently_reading"
    /\ \E outcome \in QueryOutcomes :
          /\ response' = outcome
          /\ result' = get_result(outcome)
    /\ pc' = "done"
    /\ UNCHANGED <<environ, dotenv, module, NOTION_API_KEY, NOTION_DATABASE_ID,
                   call, wire, lastPost>>

Next ==
    \/ LoadModule
    \/ post_book_from_goodreads_send
    \/ post_book_from_goodreads_return
    \/ get_currently_reading_send
    \/ get_currently_reading_return

Spec == Init /\ [][Next]_vars

-----------------------------------------------------------------------------
(* Properties *)

IsPost == call.fn = "post_book_from_goodreads"
IsGet == call.fn = "get_currently_reading"

\* The invocation finished after requests.request handed it a response.
Answered == pc = "done" /\ response.kind = "response"

\* The answer's body is a JSON object with a `results` member.
HasResults ==
    /\ response.body.form = "json"
    /\ response.body.value.json = "object"
    /\ "results" \in DOMAIN response.body.value.members

ResultsOf == response.body.value.members.results
TitleOf(entry) == entry.properties.Name.title

\* The JSON value j is the Python value p, unchanged.
SameValue(j, p) ==
    CASE p.py = "None" -> j.json = "null"
      [] p.py = "int"  -> j.json = "number" /\ j.n = p.i
      [] p.py = "str"  -> j.json = "string" /\ j.s = p.s

\* C1: when every entry of `results` has a non-empty Name title list,
\* get_currently_reading returns one string per entry, the i-th being the
\* plain_text of the first title run of the i-th entry, in response order;
\* an empty `results` gives the empty list.
C1_TitlesInResponseOrder ==
    (IsGet /\ Answered /\ HasResults
        /\ \A i \in 1..Len(ResultsOf) : Len(TitleOf(ResultsOf[i])) > 0)
    => /\ result.kind = "return"
       /\ Len(result.value) = Len(ResultsOf)
       /\ \A i \in 1..Len(ResultsOf) :
              result.value[i] = TitleOf(ResultsOf[i])[1].plain_text

\* Two entries, not in alphabetical order, each returned by its first run.
C1_Witness ==
    /\ IsGet /\ Answered /\ HasResults
    /\ Len(ResultsOf) = 2
    /\ TitleOf(ResultsOf[1]) = <<Run("Emma"), Run("Dune")>>
    /\ TitleOf(ResultsOf[2]) = <<Run("Dune")>>
    /\ result.kind = "return"
    /\ result.value = <<"Emma", "Dune">>

PropertyKeys ==
    {"Cover", "Status", "End", "Name", "Num Pages", "ISBN", "Author", "URL"}

\* C2: whatever the record's fields hold, the body sent carries exactly the
\* eight property keys, its Name title content is book.name and its URL is
\* book.url.
C2_EightPropertiesNameAndUrl ==
    IsPost =>
        /\ Len(wire) >= 1
        /\ LET properties == wire[1].data.properties
           IN  /\ DOMAIN properties = PropertyKeys
               /\ Len(properties["Name"].title) = 1
               /\ SameValue(properties["Name"].title[1].text.content, call.book.name)
               /\ SameValue(properties["URL"].url, call.book.url)

\* A record with an empty name, an empty url and no numbers has been sent.
C2_Witness ==
    /\ IsPost
    /\ call.book.name = PyStr("")
    /\ call.book.url = PyStr("")
    /\ call.book.isbn.py = "None"
    /\ call.book.num_pages.py = "None"
    /\ Len(wire) = 1

\* C3: an absent isbn or num_pages never makes post_book_from_goodreads
\* raise: the request is built and sent, its two number fields carry the
\* record's values as they are (null when absent), and the call raises only
\* when requests.request itself raised.
C3_AbsentNumbersPassThrough ==
    IsPost =>
        /\ Len(wire) = 1
        /\ SameValue(wire[1].data.properties["ISBN"].number, call.book.isbn)
        /\ SameValue(wire[1].data.properties["Num Pages"].number, call.book.num_pages)
        /\ (Answered => result.kind = "return")

\* A record with neither number was sent and the call returned.
C3_Witness ==
    /\ IsPost /\ Answered
    /\ call.book.isbn.py = "None"
    /\ call.book.num_pages.py = "None"
    /\ wire[1].data.properties["ISBN"].number = JsonNull
    /\ result.kind = "return"

\* C4: when any entry of `results` has an empty Name title list,
\* get_currently_reading raises IndexError and returns no list, wherever the
\* entry sits.
C4_EmptyTitleRaises ==
    (IsGet /\ Answered /\ HasResults
        /\ \E i \in 1..Len(ResultsOf) : Len(TitleOf(ResultsOf[i])) = 0)
    => /\ result.kind = "raise"
       /\ result.exc = "IndexError"

\* The empty title comes last, after an entry that has one.
C4_Witness ==
    /\ IsGet /\ Answered /\ HasResults
    /\ Len(ResultsOf) = 2
    /\ Len(TitleOf(ResultsOf[1])) > 0
    /\ Len(TitleOf(ResultsOf[2])) = 0
    /\ result.kind = "raise"

\* The name is set neither in the process environment nor in the .env file.
Missing(n) == n \notin DOMAIN environ /\ n \notin DOMAIN dotenv

\* C5: when NOTION_API_KEY or NOTION_DATABASE_ID is missing after the .env
\* file is loaded, the module fails to load with KeyError as soon as it is
\* loaded, and neither function is ever called nor any request sent.
C5_MissingConfigurationFailsAtLoad ==
    (\E n \in EnvNames : Missing(n)) =>
        /\ module \in {"unloaded", "KeyError"}
        /\ call = NoCall
        /\ pc = "idle"
        /\ wire = <<>>
        /\ result = NoResult

\* The load failed on the database id, after the API key was found.
C5_Witness ==
    /\ module = "KeyError"
    /\ Missing("NOTION_DATABASE_ID")
    /\ ~Missing("NOTION_API_KEY")

\* C6: whenever requests.request hands post_book_from_goodreads a response,
\* of any status, the function returns that response unchanged, after the
\* one request it sent.
C6_ResponseReturnedUnmodified ==
    (IsPost /\ Answered) =>
        /\ result.kind = "return"
        /\ result.value = response
        /\ Len(wire) = 1

\* A 400 response was returned to the caller.
C6_Witness ==
    /\ IsPost /\ Answered
    /\ response.status_code = 400
    /\ result.kind = "return"
    /\ result.value.status_code = 400

Is2xx == response.status_code \in 200..299

\* C7 as stated: a non-2xx response, or a body that is not JSON, makes
\* get_currently_reading raise a parse fault.
C7_NonSuccessRaisesParseFault ==
    (IsGet /\ Answered /\ (~Is2xx \/ response.body.form # "json"))
    => /\ result.kind = "raise"
       /\ result.exc = "JSONDecodeError"

\* C7 amended: the status is never inspected and the body alone decides.  A
\* body that is not JSON raises JSONDecodeError; a JSON body without a
\* `results` member raises a lookup fault (KeyError for an object, TypeError
\* for null); neither returns a list.  A non-2xx response whose body carries
\* `results` with non-empty titles returns the titles.
C7_BodyAloneDecides ==
    (IsGet /\ Answered) =>
        /\ response.body.form # "json"
              => result.kind = "raise" /\ result.exc = "JSONDecodeError"
        /\ (response.body.form = "json" /\ response.body.value.json = "null")
              => result.kind = "raise" /\ result.exc = "TypeError"
        /\ (response.body.form = "json" /\ response.body.value.json = "object"
               /\ "results" \notin DOMAIN response.body.value.members)
              => result.kind = "raise" /\ result.exc = "KeyError"
        /\ (HasResults /\ \A i \in 1..Len(ResultsOf) : Len(TitleOf(ResultsOf[i])) > 0)
              => result.kind = "return"

\* Notion's error object came with status 400 and raised KeyError.
C7_Witness ==
    /\ IsGet /\ Answered
    /\ response.status_code = 400
    /\ response.body = JsonBody(ErrorObject)
    /\ result.kind = "raise"
    /\ result.exc = "KeyError"

\* The call before this one was made for the same record with the other
\* value of verbose.
OtherVerbose ==
    /\ IsPost
    /\ lastPost # <<>>
    /\ lastPost[1].call.book = call.book
    /\ lastPost[1].call.verbose # call.verbose

\* C8: two calls of post_book_from_goodreads that differ only in verbose
\* send the same request and, given the same response, give the same result.
C8_VerboseHasNoEffect ==
    OtherVerbose =>
        /\ wire = lastPost[1].wire
        /\ (pc = "done" /\ response = lastPost[1].response)
              => result = lastPost[1].result

\* Both calls are finished and got the same response.
C8_Witness ==
    /\ OtherVerbose
    /\ pc = "done"
    /\ response = lastPost[1].response
    /\ response.kind = "response"
    /\ call.verbose

\* C9: every invocation of either function has sent exactly one HTTP POST,
\* while it is blocked and when it has returned or raised, whatever came
\* back; its caller has a result only once requests.request has come back.
C9_ExactlyOneRequest ==
    /\ call.fn # "none" => Len(wire) = 1 /\ wire[1].method = "POST"
    /\ pc = "waiting" => result = NoResult /\ response = NoResponse
    /\ pc = "done" => result.kind \in {"return", "raise"} /\ response.kind # "none"

\* The query ended in an indexing fault, with one request sent.
C9_Witness ==
    /\ IsGet
    /\ pc = "done"
    /\ result.kind = "raise"
    /\ result.exc = "IndexError"
    /\ Len(wire) = 1

\* The request of the current call is built from the configuration and the
\* call's own arguments: it is the one the previous call with the same
\* arguments sent, and the query is always the same.
RequestFromConfigurationAndArguments ==
    /\ (IsPost /\ lastPost # <<>> /\ lastPost[1].call = call)
          => wire = lastPost[1].wire
    /\ IsPost =>
          /\ wire[1].data.parent.database_id = JsonString(NOTION_DATABASE_ID)
          /\ wire[1].headers["Authorization"] = "Bearer " \o NOTION_API_KEY
    /\ IsGet =>
          /\ wire[1].url =
                "https://api.notion.com/v1/databases/" \o NOTION_DATABASE_ID \o "/query"
          /\ wire[1].headers["Authorization"] = "Bearer " \o NOTION_API_KEY
          /\ wire[1].data.filter.property = "Status"
          /\ wire[1].data.filter.select.equals = JsonString("Reading")

\* Once the module is loaded, no step changes its configuration.
ConfigurationUnchanged ==
    module = "loaded" =>
        /\ NOTION_API_KEY' = NOTION_API_KEY
        /\ NOTION_DATABASE_ID' = NOTION_DATABASE_ID

\* C10: the two operations are stateless: no call, successful or failing,
\* changes the API key or the database id, the request of a call depends on
\* them and on the call's own arguments only, and get_currently_reading
\* always sends the filter Status = "Reading".
C10_StatelessAndIndependent ==
    /\ []RequestFromConfigurationAndArguments
    /\ [][ConfigurationUnchanged]_vars

\* The same call was made twice and the two got different responses.
C10_Witness ==
    /\ IsPost
    /\ lastPost # <<>>
    /\ lastPost[1].call = call
    /\ pc = "done"
    /\ lastPost[1].response.kind = "response"
    /\ lastPost[1].response.status_code = 400
    /\ response.kind = "response"
    /\ response.status_code = 200
    /\ wire = lastPost[1].wire
====
